---- MODULE Spec2Model ----
(***************************************************************************)
(* Model of the UIDAI aggregation pipeline: aggregation.py                 *)
(* (normalize_text, STATE_MASTER, aggregate_folder) and the master_table.py *)
(* script that aggregates three datasets, merges them and derives the      *)
(* policy metrics.                                                         *)
(*                                                                         *)
(* Text is a sequence of characters, each character a one-character        *)
(* string ("NBSP" stands for U+00A0, "ACUTE" for the combining U+0301 and  *)
(* "E_ACUTE" for U+00E9).  A data frame is a sequence of rows.  A cell     *)
(* that pandas can leave missing is a record [nan, v].                     *)
(***************************************************************************)
EXTENDS Integers, Sequences, FiniteSets, TLC

\* ------------------------------------------------------------------ bounds
MaxRows == 3        \* rows of one folder (all its shards together)
MaxFiles == 2       \* shard files of one folder
MaxChunk == 3       \* chunk sizes 1..MaxChunk; MaxChunk >= any file of the model
MasterRows == 2     \* rows of one folder in the master-table scenarios
MaxLen == 3         \* characters of a state or district text in the text scenarios

\* ------------------------------------------------------------------ text
UpperLetters ==
  <<"A","B","C","D","E","F","G","H","I","J","K","L","M",
    "N","O","P","Q","R","S","T","U","V","W","X","Y","Z">>

LowerLetters ==
  <<"a","b","c","d","e","f","g","h","i","j","k","l","m",
    "n","o","p","q","r","s","t","u","v","w","x","y","z">>

Digits == <<"0","1","2","3","4","5","6","7","8","9">>

\* The characters of the model in code-point order (the order pandas sorts text by).
CharOrder ==
  <<"\t", " ", "-", ".">> \o Digits \o UpperLetters \o <<"_">> \o LowerLetters
    \o <<"NBSP", "E_ACUTE", "ACUTE">>

Range(s) == {s[i] : i \in 1..Len(s)}

OrdOf == [c \in Range(CharOrder) |-> CHOOSE i \in 1..Len(CharOrder) : CharOrder[i] = c]

Ord(c) == OrdOf[c]

UpperSet == Range(UpperLetters)
LowerSet == Range(LowerLetters)
DigitSet == Range(Digits)

IsUpper(c) == c \in UpperSet
IsLower(c) == c \in LowerSet \/ c = "E_ACUTE"
IsLetter(c) == IsUpper(c) \/ IsLower(c)
\* \w of a Python 3 str pattern: alphanumeric or underscore
IsWord(c) == IsLetter(c) \/ c \in DigitSet \/ c = "_"
\* \s of a Python 3 str pattern (str.isspace)
IsSpace(c) == c \in {" ", "\t", "NBSP"}

\* unicodedata.normalize("NFKD", x), one character
NFKDChar(c) ==
  CASE c = "NBSP" -> <<" ">>
    [] c = "E_ACUTE" -> <<"e", "ACUTE">>
    [] OTHER -> <<c>>

RECURSIVE NFKD(_)
NFKD(s) == IF s = <<>> THEN <<>> ELSE NFKDChar(Head(s)) \o NFKD(Tail(s))

LowerOf == [c \in UpperSet |-> LowerLetters[CHOOSE i \in 1..26 : UpperLetters[i] = c]]
UpperOf == [c \in LowerSet |-> UpperLetters[CHOOSE i \in 1..26 : LowerLetters[i] = c]]

LowerChar(c) == IF IsUpper(c) THEN LowerOf[c] ELSE c

UpperChar(c) == IF c \in LowerSet THEN UpperOf[c] ELSE c

\* .str.lower()
StrLower(s) == [i \in 1..Len(s) |-> LowerChar(s[i])]

\* .str.replace(r"[^\w\s]", " ", regex=True)
ReplacePunct(s) ==
  [i \in 1..Len(s) |-> IF IsWord(s[i]) \/ IsSpace(s[i]) THEN s[i] ELSE " "]

\* .str.replace(r"\s+", " ", regex=True)
RECURSIVE CollapseSpaces(_)
CollapseSpaces(s) ==
  IF s = <<>> THEN <<>>
  ELSE IF IsSpace(Head(s))
    THEN IF Len(s) > 1 /\ IsSpace(s[2])
           THEN CollapseSpaces(Tail(s))
           ELSE <<" ">> \o CollapseSpaces(Tail(s))
    ELSE <<Head(s)>> \o CollapseSpaces(Tail(s))

RECURSIVE LStrip(_)
LStrip(s) == IF s # <<>> /\ IsSpace(Head(s)) THEN LStrip(Tail(s)) ELSE s

RECURSIVE RStrip(_)
RStrip(s) ==
  IF s # <<>> /\ IsSpace(s[Len(s)]) THEN RStrip(SubSeq(s, 1, Len(s) - 1)) ELSE s

\* .str.strip()
StrStrip(s) == LStrip(RStrip(s))

\* a normalize_text that trims before it replaces the punctuation
NormalizeStripFirst(x) == CollapseSpaces(ReplacePunct(StrStrip(StrLower(NFKD(x)))))

\* normalize_text, one value of the series
normalize_text(x) == StrStrip(CollapseSpaces(ReplacePunct(StrLower(NFKD(x)))))

\* .str.title(): a letter is upper-cased when no letter precedes it, else lower-cased
StrTitle(s) ==
  [i \in 1..Len(s) |->
     IF i = 1 \/ ~IsLetter(s[i - 1]) THEN UpperChar(s[i]) ELSE LowerChar(s[i])]

\* ------------------------------------------------------------------ cells
\* A value pandas holds in a column that may be missing (NaN / NaT).
Cell(x) == [nan |-> FALSE, v |-> x]
NaN == [nan |-> TRUE, v |-> 0]

\* ------------------------------------------------------------------ states
\* STATE_MASTER: every entry of the mapping, as <<key, official name>>.
STATE_MASTER ==
  {
    << <<"a","n","d","h","r","a"," ","p","r","a","d","e","s","h">>,
       <<"A","n","d","h","r","a"," ","P","r","a","d","e","s","h">> >>,
    << <<"a","r","u","n","a","c","h","a","l"," ","p","r","a","d","e","s","h">>,
       <<"A","r","u","n","a","c","h","a","l"," ","P","r","a","d","e","s","h">> >>,
    << <<"a","s","s","a","m">>,
       <<"A","s","s","a","m">> >>,
    << <<"b","i","h","a","r">>,
       <<"B","i","h","a","r">> >>,
    << <<"c","h","h","a","t","t","i","s","g","a","r","h">>,
       <<"C","h","h","a","t","t","i","s","g","a","r","h">> >>,
    << <<"g","o","a">>,
       <<"G","o","a">> >>,
    << <<"g","u","j","a","r","a","t">>,
       <<"G","u","j","a","r","a","t">> >>,
    << <<"h","a","r","y","a","n","a">>,
       <<"H","a","r","y","a","n","a">> >>,
    << <<"h","i","m","a","c","h","a","l"," ","p","r","a","d","e","s","h">>,
       <<"H","i","m","a","c","h","a","l"," ","P","r","a","d","e","s","h">> >>,
    << <<"j","h","a","r","k","h","a","n","d">>,
       <<"J","h","a","r","k","h","a","n","d">> >>,
    << <<"k","a","r","n","a","t","a","k","a">>,
       <<"K","a","r","n","a","t","a","k","a">> >>,
    << <<"k","e","r","a","l","a">>,
       <<"K","e","r","a","l","a">> >>,
    << <<"m","a","d","h","y","a"," ","p","r","a","d","e","s","h">>,
       <<"M","a","d","h","y","a"," ","P","r","a","d","e","s","h">> >>,
    << <<"m","a","h","a","r","a","s","h","t","r","a">>,
       <<"M","a","h","a","r","a","s","h","t","r","a">> >>,
    << <<"m","a","n","i","p","u","r">>,
       <<"M","a","n","i","p","u","r">> >>,
    << <<"m","e","g","h","a","l","a","y","a">>,
       <<"M","e","g","h","a","l","a","y","a">> >>,
    << <<"m","i","z","o","r","a","m">>,
       <<"M","i","z","o","r","a","m">> >>,
    << <<"n","a","g","a","l","a","n","d">>,
       <<"N","a","g","a","l","a","n","d">> >>,
    << <<"o","d","i","s","h","a">>,
       <<"O","d","i","s","h","a">> >>,
    << <<"p","u","n","j","a","b">>,
       <<"P","u","n","j","a","b">> >>,
    << <<"r","a","j","a","s","t","h","a","n">>,
       <<"R","a","j","a","s","t","h","a","n">> >>,
    << <<"s","i","k","k","i","m">>,
       <<"S","i","k","k","i","m">> >>,
    << <<"t","a","m","i","l"," ","n","a","d","u">>,
       <<"T","a","m","i","l"," ","N","a","d","u">> >>,
    << <<"t","e","l","a","n","g","a","n","a">>,
       <<"T","e","l","a","n","g","a","n","a">> >>,
    << <<"t","r","i","p","u","r","a">>,
       <<"T","r","i","p","u","r","a">> >>,
    << <<"u","t","t","a","r"," ","p","r","a","d","e","s","h">>,
       <<"U","t","t","a","r"," ","P","r","a","d","e","s","h">> >>,
    << <<"u","t","t","a","r","a","k","h","a","n","d">>,
       <<"U","t","t","a","r","a","k","h","a","n","d">> >>,
    << <<"w","e","s","t"," ","b","e","n","g","a","l">>,
       <<"W","e","s","t"," ","B","e","n","g","a","l">> >>,
    << <<"a","n","d","a","m","a","n"," ","a","n","d"," ","n","i","c","o","b","a","r"," ","i","s","l","a","n","d","s">>,
       <<"A","n","d","a","m","a","n"," ","a","n","d"," ","N","i","c","o","b","a","r"," ","I","s","l","a","n","d","s">> >>,
    << <<"c","h","a","n","d","i","g","a","r","h">>,
       <<"C","h","a","n","d","i","g","a","r","h">> >>,
    << <<"d","a","d","r","a"," ","a","n","d"," ","n","a","g","a","r"," ","h","a","v","e","l","i"," ","a","n","d"," ","d","a","m","a","n"," ","a","n","d"," ","d","i","u">>,
       <<"D","a","d","r","a"," ","a","n","d"," ","N","a","g","a","r"," ","H","a","v","e","l","i"," ","a","n","d"," ","D","a","m","a","n"," ","a","n","d"," ","D","i","u">> >>,
    << <<"d","e","l","h","i">>,
       <<"D","e","l","h","i">> >>,
    << <<"j","a","m","m","u"," ","a","n","d"," ","k","a","s","h","m","i","r">>,
       <<"J","a","m","m","u"," ","a","n","d"," ","K","a","s","h","m","i","r">> >>,
    << <<"l","a","d","a","k","h">>,
       <<"L","a","d","a","k","h">> >>,
    << <<"l","a","k","s","h","a","d","w","e","e","p">>,
       <<"L","a","k","s","h","a","d","w","e","e","p">> >>,
    << <<"p","u","d","u","c","h","e","r","r","y">>,
       <<"P","u","d","u","c","h","e","r","r","y">> >> }

StateKeys == {e[1] : e \in STATE_MASTER}
CanonicalNames == {e[2] : e \in STATE_MASTER}

\* a lookup that lets an unknown text through unchanged
MapStateKeepUnknown(x) ==
  IF x \in StateKeys
    THEN Cell((CHOOSE e \in STATE_MASTER : e[1] = x)[2])
    ELSE Cell(x)

\* a lookup that expands an abbreviation: a text that starts a key resolves to it
MapStatePrefix(x) ==
  IF \E e \in STATE_MASTER : Len(x) <= Len(e[1]) /\ SubSeq(e[1], 1, Len(x)) = x
    THEN Cell((CHOOSE e \in STATE_MASTER :
                 Len(x) <= Len(e[1]) /\ SubSeq(e[1], 1, Len(x)) = x)[2])
    ELSE NaN

\* Series.map(STATE_MASTER), one value: the official name, or NaN for a text that is no key
MapState(x) ==
  IF x \in StateKeys
    THEN Cell((CHOOSE e \in STATE_MASTER : e[1] = x)[2])
    ELSE NaN

\* ------------------------------------------------------------------ dates
\* The date texts of the model are "01-03-2025" and "02-03-2025" (day first),
\* "2025-03-01" (ISO) and "n/a" (no date); a parsed date is the number yyyymmdd.

\* pandas' guess_datetime_format(text, dayfirst=True): "none" when it guesses nothing
GuessFormat(t) ==
  CASE t \in {"01-03-2025", "02-03-2025"} -> "%d-%m-%Y"
    [] t = "2025-03-01" -> "%Y-%m-%d"
    [] OTHER -> "none"

\* the date a text denotes (parsed on its own, day first), NaT (NaN) if it is no date
ParseDate(t) ==
  CASE t \in {"01-03-2025", "2025-03-01"} -> Cell(20250301)
    [] t = "02-03-2025" -> Cell(20250302)
    [] OTHER -> NaN

\* strptime with one format, errors='coerce'
Strptime(t, fmt) == IF GuessFormat(t) = fmt THEN ParseDate(t) ELSE NaN

\* pd.to_datetime(column, dayfirst=True, errors='coerce').  pandas >= 2.0 (infer)
\* guesses one format from the first element and reads every element with it;
\* when it guesses none, and always before 2.0, each element is parsed on its own.
to_datetime(col, infer) ==
  IF col # <<>> /\ infer /\ GuessFormat(col[1]) # "none"
    THEN [i \in 1..Len(col) |-> Strptime(col[i], GuessFormat(col[1]))]
    ELSE [i \in 1..Len(col) |-> ParseDate(col[i])]

\* ------------------------------------------------------------------ numerics
\* pd.to_numeric(value, errors='coerce'): the number a numeral denotes, NaN otherwise
to_numeric(t) ==
  CASE t = "0" -> Cell(0)
    [] t = "1" -> Cell(1)
    [] t = "2" -> Cell(2)
    [] t = "3" -> Cell(3)
    [] t = "10" -> Cell(10)
    [] t = "20" -> Cell(20)
    [] t = "30" -> Cell(30)
    [] t = "50" -> Cell(50)
    [] t = "60" -> Cell(60)
    [] t = "70" -> Cell(70)
    [] t = "-2" -> Cell(0 - 2)
    [] OTHER -> NaN

\* .fillna(0), one cell
fillna0(c) == IF c.nan THEN Cell(0) ELSE c

\* ------------------------------------------------------------------ frames
RECURSIVE TextLess(_, _)
TextLess(a, b) ==
  IF b = <<>> THEN FALSE
  ELSE IF a = <<>> THEN TRUE
  ELSE IF Head(a) = Head(b) THEN TextLess(Tail(a), Tail(b))
  ELSE Ord(Head(a)) < Ord(Head(b))

\* group_cols = ["date", "state", "district"]
Key(r) == <<r.date, r.state, r.district>>

KeyLess(k, l) ==
  \/ k[1] < l[1]
  \/ k[1] = l[1] /\ TextLess(k[2], l[2])
  \/ k[1] = l[1] /\ k[2] = l[2] /\ TextLess(k[3], l[3])

RECURSIVE SortKeys(_)
SortKeys(S) ==
  IF S = {} THEN <<>>
  ELSE LET m == CHOOSE k \in S : \A l \in S \ {k} : KeyLess(k, l)
       IN <<m>> \o SortKeys(S \ {m})

\* the sum of column j over the rows of a frame with key k, in row order
RECURSIVE SumColumn(_, _, _)
SumColumn(frame, k, j) ==
  IF frame = <<>> THEN 0
  ELSE (IF Key(Head(frame)) = k THEN Head(frame).v[j] ELSE 0)
         + SumColumn(Tail(frame), k, j)

Width(frame) == IF frame = <<>> THEN 0 ELSE Len(frame[1].v)

\* frame.groupby(group_cols, as_index=False)[sum_cols].sum(): one row per key, keys sorted
GroupSum(frame) ==
  LET ks == SortKeys({Key(frame[i]) : i \in 1..Len(frame)})
  IN [n \in 1..Len(ks) |->
        [date |-> ks[n][1], state |-> ks[n][2], district |-> ks[n][3],
         v |-> [j \in 1..Width(frame) |-> SumColumn(frame, ks[n], j)]]]

\* pd.concat(frames, ignore_index=True)
RECURSIVE Concat(_)
Concat(frames) == IF frames = <<>> THEN <<>> ELSE Head(frames) \o Concat(Tail(frames))

\* chunk.dropna(subset=[col]) for the date and the state column
DropNaDate(frame) == SelectSeq(frame, LAMBDA r : ~r.date.nan)
DropNaState(frame) == SelectSeq(frame, LAMBDA r : ~r.state.nan)

\* The body of the chunk loop up to the numeric conversion: the cleaned rows of a chunk.
CleanChunk(chunk, infer) ==
  LET dates == to_datetime([i \in 1..Len(chunk) |-> chunk[i].date], infer)
      dated == DropNaDate([i \in 1..Len(chunk) |-> [chunk[i] EXCEPT !.date = dates[i]]])
      stated == DropNaState([i \in 1..Len(dated) |->
                  [dated[i] EXCEPT !.state = MapState(normalize_text(dated[i].state))]])
  IN [i \in 1..Len(stated) |->
        [date |-> stated[i].date.v,
         state |-> stated[i].state.v,
         district |-> StrTitle(normalize_text(stated[i].district)),
         v |-> [j \in 1..Len(stated[i].vals) |->
                  fillna0(to_numeric(stated[i].vals[j])).v]]]

\* One pass of the chunk loop: the partial aggregate appended to aggregated_chunks.
ChunkAggregate(chunk, infer) == GroupSum(CleanChunk(chunk, infer))

\* a combine that returns an empty table when nothing was read
ConcatNeverRaises(chunks) == FALSE

\* pd.concat([]) raises ValueError("No objects to concatenate")
ConcatRaises(chunks) == chunks = <<>>

\* a final combine that only concatenates
ConcatOnly(chunks) == Concat(chunks)

\* a final combine that keeps the first partial row of each key
KeepFirst(chunks) ==
  LET all == Concat(chunks)
      first == {i \in 1..Len(all) : \A j \in 1..(i - 1) : Key(all[j]) # Key(all[i])}
  IN GroupSum(Concat([i \in 1..Len(all) |-> IF i \in first THEN <<all[i]>> ELSE <<>>]))

\* FINAL COMBINE: concat the partial aggregates and group-sum them again
FinalCombine(chunks) == GroupSum(Concat(chunks))

\* pd.read_csv(file, chunksize=n): the chunks of a file's rows, in file order
RECURSIVE Chunks(_, _)
Chunks(rows, n) ==
  IF rows = <<>> THEN <<>>
  ELSE IF Len(rows) <= n THEN <<rows>>
  ELSE <<SubSeq(rows, 1, n)>> \o Chunks(SubSeq(rows, n + 1, Len(rows)), n)

\* ------------------------------------------------------------------ datasets
Datasets == {"enrolment", "demographic", "biometric"}

\* sum_cols of the three aggregate_folder calls of master_table.py
SumCols(ds) ==
  CASE ds = "enrolment" -> <<"age_0_5", "age_5_17", "age_18_greater">>
    [] ds = "demographic" -> <<"demo_age_5_17", "demo_age_17_">>
    [] ds = "biometric" -> <<"bio_age_5_17", "bio_age_17_">>

\* the columns the chunk loop indexes: chunk['date'], ['state'], ['district'], chunk[col]
RequiredColumns(ds) == {"date", "state", "district"} \cup Range(SumCols(ds))

\* the frame aggregate_folder returns, its metrics under the names of sum_cols
NameColumns(frame, names) ==
  [i \in 1..Len(frame) |->
     [date |-> frame[i].date, state |-> frame[i].state, district |-> frame[i].district]
       @@ [c \in Range(names) |->
             Cell(frame[i].v[CHOOSE j \in 1..Len(names) : names[j] = c])]]

\* df.rename(columns={old: new})
Rename(frame, old, new) ==
  [i \in 1..Len(frame) |->
     [c \in (DOMAIN frame[i] \ {old}) \cup {new} |->
        IF c = new THEN frame[i][old] ELSE frame[i][c]]]

\* a + b on two cells: NaN if either is
AddCells(a, b) == IF a.nan \/ b.nan THEN NaN ELSE Cell(a.v + b.v)

\* enrolment_df["total_enrolments"] = age_0_5 + age_5_17 + age_18_greater
WithTotalEnrolments(frame) ==
  [i \in 1..Len(frame) |->
     frame[i] @@ [c \in {"total_enrolments"} |->
        AddCells(AddCells(frame[i].age_0_5, frame[i].age_5_17), frame[i].age_18_greater)]]

\* the same merge with how="outer": the keys only right has are kept too
RECURSIVE LeftPart(_, _, _)
LeftPart(left, right, rcols) ==
  IF left = <<>> THEN <<>>
  ELSE LET l == Head(left)
           m == SelectSeq(right, LAMBDA r : Key(r) = Key(l))
       IN (IF m = <<>>
             THEN << l @@ [c \in rcols |-> NaN] >>
             ELSE [i \in 1..Len(m) |-> l @@ [c \in rcols |-> m[i][c]]])
          \o LeftPart(Tail(left), right, rcols)

MergeOuter(left, right, rcols) ==
  LET lcols == {"age_0_5", "age_5_17", "age_18_greater", "total_enrolments"} \cup
               (IF "demo_5_17" \in rcols THEN {} ELSE {"demo_5_17", "demo_18_plus"})
      only == SelectSeq(right, LAMBDA r : \A i \in 1..Len(left) : Key(left[i]) # Key(r))
  IN LeftPart(left, right, rcols) \o
     [i \in 1..Len(only) |-> only[i] @@ [c \in lcols |-> NaN]]

\* left.merge(right, on=["date", "state", "district"], how="left"); rcols are the
\* metric columns of right
RECURSIVE MergeLeft(_, _, _)
MergeLeft(left, right, rcols) ==
  IF left = <<>> THEN <<>>
  ELSE LET l == Head(left)
           m == SelectSeq(right, LAMBDA r : Key(r) = Key(l))
       IN (IF m = <<>>
             THEN << l @@ [c \in rcols |-> NaN] >>
             ELSE [i \in 1..Len(m) |-> l @@ [c \in rcols |-> m[i][c]]])
          \o MergeLeft(Tail(left), right, rcols)

KeyColumns == {"date", "state", "district"}

\* a fillna that fills nothing
FillNothing(frame) == frame

\* master_df.fillna(0, inplace=True)
FillNa(frame) ==
  [i \in 1..Len(frame) |->
     [c \in DOMAIN frame[i] |->
        IF c \in KeyColumns THEN frame[i][c] ELSE fillna0(frame[i][c])]]

\* master_df["total_enrolments"].replace(0, 1), one cell
ReplaceZero(c) == IF ~c.nan /\ c.v = 0 THEN Cell(1) ELSE c

update_cols == <<"demo_5_17", "demo_18_plus", "bio_5_17", "bio_18_plus">>

\* master_df[update_cols].sum(axis=1): NaN cells are skipped
RECURSIVE RowSum(_, _)
RowSum(r, cols) ==
  IF cols = <<>> THEN 0
  ELSE (IF r[Head(cols)].nan THEN 0 ELSE r[Head(cols)].v) + RowSum(r, Tail(cols))

\* a / b on two cells, as the exact fraction num/den; pandas gives inf or NaN, not an
\* error, for a zero divisor
Divide(a, b) ==
  IF a.nan \/ b.nan \/ (a.v = 0 /\ b.v = 0) THEN [kind |-> "nan", num |-> 0, den |-> 1]
  ELSE IF b.v = 0 THEN [kind |-> "inf", num |-> a.v, den |-> 0]
  ELSE [kind |-> "finite", num |-> a.v, den |-> b.v]

\* the comparison with >= for >
ReachesHalf(burden, total) == ~total.nan /\ 2 * burden >= total.v

\* update_burden > (0.5 * total_enrolments) on integer counts: 2 * burden > total;
\* a comparison with NaN is False
ExceedsHalf(burden, total) == ~total.nan /\ 2 * burden > total.v

\* section 4 of master_table.py, one row
DeriveRow(r) ==
  LET t == ReplaceZero(r.total_enrolments)
      r1 == [r EXCEPT !.total_enrolments = t]
      ub == RowSum(r1, update_cols)
  IN r1 @@ [c \in {"update_burden", "child_ratio", "policy_alert"} |->
       CASE c = "update_burden" -> Cell(ub)
         [] c = "child_ratio" -> Divide(r1.age_0_5, t)
         [] c = "policy_alert" -> ExceedsHalf(ub, t)]

Derive(frame) == [i \in 1..Len(frame) |-> DeriveRow(frame[i])]

\* ------------------------------------------------------------------ inputs
Goa == <<"G","o","a">>
GoaVariant == <<" ","G","O","A",".">>
Bihar == <<"b","i","h","a","r">>
Xanadu == <<"X","a","n","a","d","u">>
Pune == <<"p","u","n","e">>
PuneVariant == <<"P","U","N","E"," ">>
Agra == <<"a","g","r","a">>

Raw(d, s, t, vals) == [date |-> d, state |-> s, district |-> t, vals |-> vals]

\* Shard rows for the aggregation scenarios: one key written two ways (the second
\* with its date in another format and a corrupt numeral), an unparseable date, an
\* unresolvable state, and a second key with a negative numeral.
AggRecords ==
  { Raw("01-03-2025", Goa, Pune, <<"1", "2", "3">>),
    Raw("2025-03-01", GoaVariant, PuneVariant, <<"10", "x", "0">>),
    Raw("n/a", Goa, Pune, <<"20", "0", "0">>),
    Raw("01-03-2025", Xanadu, Pune, <<"30", "0", "0">>),
    Raw("02-03-2025", Bihar, Agra, <<"-2", "0", "1">>) }

\* Shard rows for the master-table scenarios.
MasterRecords(ds) ==
  CASE ds = "enrolment" ->
         { Raw("01-03-2025", Goa, Pune, <<"10", "20", "70">>),
           Raw("01-03-2025", Goa, Agra, <<"0", "0", "0">>),
           Raw("02-03-2025", Bihar, Agra, <<"-2", "0", "0">>) }
    [] ds = "demographic" ->
         { Raw("01-03-2025", GoaVariant, PuneVariant, <<"30", "0">>),
           Raw("02-03-2025", Goa, Agra, <<"1", "x">>) }
    [] ds = "biometric" ->
         { Raw("01-03-2025", Goa, Pune, <<"20", "0">>),
           Raw("01-03-2025", Goa, Agra, <<"0", "3">>) }

SeqsUpTo(S, n) == UNION {[1..k -> S] : k \in 1..n}

File(cols, rows) == [columns |-> cols, rows |-> rows]

\* the ways to cut a sequence of rows into at most n shard files, each with every column
RECURSIVE Shards(_, _, _)
Shards(rows, n, cols) ==
  {<<File(cols, rows)>>} \cup
  (IF n <= 1 THEN {}
   ELSE UNION {{<<File(cols, SubSeq(rows, 1, c))>> \o rest :
                  rest \in Shards(SubSeq(rows, c + 1, Len(rows)), n - 1, cols)} :
               c \in 1..(Len(rows) - 1)})

Folder(exists, files) == [exists |-> exists, files |-> files]

\* every row of a folder, shard after shard
AllRows(files) == Concat([i \in 1..Len(files) |-> files[i].rows])

\* folders with a structural failure: no folder, no shard, a shard without a column
BrokenFolders(ds, records) ==
  LET r == CHOOSE x \in records : TRUE
  IN {Folder(FALSE, <<>>), Folder(TRUE, <<>>)} \cup
     {Folder(TRUE, <<File(RequiredColumns(ds) \ {c}, <<r>>)>>) :
        c \in {"date", SumCols(ds)[1]}} \cup
     {Folder(TRUE, <<File(RequiredColumns(ds), <<r>>),
                     File(RequiredColumns(ds) \ {"state"}, <<r>>)>>)}

GoodFolders(ds, records, rows, files) ==
  {Folder(TRUE, fs) :
     fs \in UNION {Shards(rs, files, RequiredColumns(ds)) : rs \in SeqsUpTo(records, rows)}}

ChunkSizes == 1..MaxChunk

\* ------------------------------------------------------------------ state
VARIABLES
  infer_format,       \* the installed pandas guesses one date format per to_datetime call
  chunksize,          \* aggregate_folder's chunksize
  folders,            \* the three dataset folders: their shard files in glob order
  pc,                 \* position of the master_table.py script
  file_idx, row_pos,  \* aggregate_folder: the file being read and the rows of it read
  chunk,              \* aggregate_folder: the chunk of the last pass, as cleaned
  aggregated_chunks,  \* aggregate_folder: the partial aggregates so far
  enrolment_df, demographic_df, biometric_df,
  master_df,
  output_csv,         \* processed_data/master_uidai_table.csv as this run leaves it
  error,              \* the exception that ended the run, "none" if none
  stdout              \* the lines printed so far

vars == <<infer_format, chunksize, folders, pc, file_idx, row_pos, chunk,
          aggregated_chunks, enrolment_df, demographic_df, biometric_df, master_df,
          output_csv, error, stdout>>

\* print(text, args...): one line of output
Line(text, args) == [text |-> text, args |-> args]

InitRun ==
  /\ pc = "enrolment"
  /\ file_idx = 1
  /\ row_pos = 0
  /\ chunk = <<>>
  /\ aggregated_chunks = <<>>
  /\ enrolment_df = <<>>
  /\ demographic_df = <<>>
  /\ biometric_df = <<>>
  /\ master_df = <<>>
  /\ output_csv = [written |-> FALSE, rows |-> <<>>]
  /\ error = "none"
  /\ stdout = <<Line("Aggregating UIDAI datasets...", <<>>),
                Line("Processing Aadhaar Enrolment data", <<>>)>>

\* master_table.py as it is run: every folder small, the default chunk size (which
\* exceeds every file)
Init ==
  /\ infer_format \in BOOLEAN
  /\ chunksize = MaxChunk
  /\ \E e \in GoodFolders("enrolment", MasterRecords("enrolment"), MasterRows, 1)
               \cup BrokenFolders("enrolment", MasterRecords("enrolment")),
        d \in GoodFolders("demographic", MasterRecords("demographic"), MasterRows, 1)
               \cup BrokenFolders("demographic", MasterRecords("demographic")),
        b \in GoodFolders("biometric", MasterRecords("biometric"), MasterRows, 1)
               \cup BrokenFolders("biometric", MasterRecords("biometric")) :
       folders = [ds \in Datasets |->
                    CASE ds = "enrolment" -> e
                      [] ds = "demographic" -> d
                      [] ds = "biometric" -> b]
  /\ InitRun

OneRowFolder(ds) ==
  Folder(TRUE, <<File(RequiredColumns(ds), <<CHOOSE r \in MasterRecords(ds) : TRUE>>)>>)

\* aggregate_folder under every chunk size and shard layout of the enrolment folder.
\* The script stops after that call (the demographic folder is absent), except in the
\* scenarios of one enrolment row, which run to the end.
InitAggregate ==
  /\ infer_format \in BOOLEAN
  /\ chunksize \in ChunkSizes
  /\ \E f \in GoodFolders("enrolment", AggRecords, MaxRows, MaxFiles)
               \cup BrokenFolders("enrolment", AggRecords) :
       folders = [ds \in Datasets |->
                    IF ds = "enrolment" THEN f
                    ELSE IF ds = "demographic" /\ Len(AllRows(f.files)) > 1
                      THEN Folder(FALSE, <<>>)
                      ELSE OneRowFolder(ds)]
  /\ InitRun

\* The characters the text scenarios build state and district texts from: an upper
\* and three lower-case letters, a space, a tab and a no-break space, a full stop, an
\* underscore, and a letter that NFKD decomposes into a letter and a combining mark.
TextAlphabet == {"G", "g", "o", "a", " ", "\t", "NBSP", ".", "_", "E_ACUTE"}

\* every text of up to MaxLen of these characters, and every key of STATE_MASTER
Texts == SeqsUpTo(TextAlphabet, MaxLen) \cup StateKeys

\* an enrolment folder of one shard of one row, the text in its state or district column
TextFolder(x, inState) ==
  Folder(TRUE,
         <<File(RequiredColumns("enrolment"),
                <<IF inState THEN Raw("01-03-2025", x, Pune, <<"1", "2", "3">>)
                             ELSE Raw("01-03-2025", Goa, x, <<"1", "2", "3">>)>>)>>)

\* aggregate_folder on every one of these texts as a state and as a district.  The script stops after that call, except for the texts of one
\* character and the folders with a structural failure.
InitText ==
  /\ infer_format \in BOOLEAN
  /\ chunksize = MaxChunk
  /\ \/ \E x \in Texts, inState \in BOOLEAN :
          folders = [ds \in Datasets |->
                       IF ds = "enrolment" THEN TextFolder(x, inState)
                       ELSE IF ds = "demographic" /\ Len(x) > 1
                         THEN Folder(FALSE, <<>>)
                         ELSE OneRowFolder(ds)]
     \/ \E f \in BrokenFolders("enrolment", AggRecords) :
          folders = [ds \in Datasets |->
                       IF ds = "enrolment" THEN f ELSE OneRowFolder(ds)]
  /\ InitRun

\* ------------------------------------------------------------------ actions
Aggregating == pc \in Datasets

FilesLeft == Aggregating /\ file_idx <= Len(folders[pc].files)

CurrentFile == folders[pc].files[file_idx]

Min(a, b) == IF a <= b THEN a ELSE b

\* the next chunk pd.read_csv yields from the current file
CurrentChunk ==
  SubSeq(CurrentFile.rows, row_pos + 1, Min(row_pos + chunksize, Len(CurrentFile.rows)))

\* chunk['date'] or another column the loop indexes raises KeyError
ChunkRaises(file, ds) == ~(RequiredColumns(ds) \subseteq file.columns)

\* One pass of the chunk loop of aggregate_folder (lines 111-156).
ReadChunk ==
  /\ FilesLeft
  /\ ~ChunkRaises(CurrentFile, pc)
  /\ stdout' = IF row_pos = 0 THEN Append(stdout, Line("Processing:", <<file_idx>>))
                              ELSE stdout
  /\ chunk' = CleanChunk(CurrentChunk, infer_format)
  /\ aggregated_chunks' = Append(aggregated_chunks, ChunkAggregate(CurrentChunk, infer_format))
  /\ IF row_pos + chunksize >= Len(CurrentFile.rows)
       THEN file_idx' = file_idx + 1 /\ row_pos' = 0
       ELSE file_idx' = file_idx /\ row_pos' = row_pos + chunksize
  /\ UNCHANGED <<infer_format, chunksize, folders, pc, enrolment_df, demographic_df,
                 biometric_df, master_df, output_csv, error>>

\* A chunk without a required column: the KeyError ends the script.
ChunkKeyError ==
  /\ FilesLeft
  /\ ChunkRaises(CurrentFile, pc)
  /\ pc' = "aborted"
  /\ error' = "KeyError"
  /\ stdout' = Append(stdout, Line("Processing:", <<file_idx>>))
  /\ UNCHANGED <<infer_format, chunksize, folders, file_idx, row_pos, chunk,
                 aggregated_chunks, enrolment_df, demographic_df, biometric_df,
                 master_df, output_csv>>

\* No shard was read (no folder, or no *.csv in it): pd.concat([]) raises ValueError.
ConcatValueError ==
  /\ Aggregating
  /\ ~FilesLeft
  /\ ConcatRaises(aggregated_chunks)
  /\ pc' = "aborted"
  /\ error' = "ValueError"
  /\ UNCHANGED <<infer_format, chunksize, folders, file_idx, row_pos, chunk,
                 aggregated_chunks, enrolment_df, demographic_df, biometric_df,
                 master_df, output_csv, stdout>>

\* what aggregate_folder returns once every shard is read
final_df == NameColumns(FinalCombine(aggregated_chunks), SumCols(pc))

Returns(ds) == pc = ds /\ ~FilesLeft /\ ~ConcatRaises(aggregated_chunks)

NextCall(next) ==
  /\ pc' = next
  /\ file_idx' = 1
  /\ row_pos' = 0
  /\ chunk' = <<>>
  /\ aggregated_chunks' = <<>>

\* what the script keeps of the frame aggregate_folder returned for a dataset
\* (lines 40-44, 56-62, 74-80)
Kept(ds, frame) ==
  CASE ds = "enrolment" -> WithTotalEnrolments(frame)
    [] ds = "demographic" ->
         Rename(Rename(frame, "demo_age_5_17", "demo_5_17"), "demo_age_17_", "demo_18_plus")
    [] ds = "biometric" ->
         Rename(Rename(frame, "bio_age_5_17", "bio_5_17"), "bio_age_17_", "bio_18_plus")

\* master_table.py lines 33-44
FinishEnrolment ==
  /\ Returns("enrolment")
  /\ enrolment_df' = Kept("enrolment", final_df)
  /\ NextCall("demographic")
  /\ stdout' = Append(stdout, Line("Processing Demographic Update data", <<>>))
  /\ UNCHANGED <<infer_format, chunksize, folders, demographic_df, biometric_df,
                 master_df, output_csv, error>>

\* master_table.py lines 49-62
FinishDemographic ==
  /\ Returns("demographic")
  /\ demographic_df' = Kept("demographic", final_df)
  /\ NextCall("biometric")
  /\ stdout' = Append(stdout, Line("Processing Biometric Update data", <<>>))
  /\ UNCHANGED <<infer_format, chunksize, folders, enrolment_df, biometric_df,
                 master_df, output_csv, error>>

\* master_table.py lines 67-80
FinishBiometric ==
  /\ Returns("biometric")
  /\ biometric_df' = Kept("biometric", final_df)
  /\ NextCall("merge")
  /\ stdout' = Append(stdout, Line("Merging datasets into master table", <<>>))
  /\ UNCHANGED <<infer_format, chunksize, folders, enrolment_df, demographic_df,
                 master_df, output_csv, error>>

\* master_table.py lines 88-92
Merge ==
  /\ pc = "merge"
  /\ master_df' = MergeLeft(MergeLeft(enrolment_df, demographic_df,
                                      {"demo_5_17", "demo_18_plus"}),
                            biometric_df, {"bio_5_17", "bio_18_plus"})
  /\ pc' = "fillna"
  /\ UNCHANGED <<infer_format, chunksize, folders, file_idx, row_pos, chunk,
                 aggregated_chunks, enrolment_df, demographic_df, biometric_df,
                 output_csv, error, stdout>>

\* master_table.py line 94
Fill ==
  /\ pc = "fillna"
  /\ master_df' = FillNa(master_df)
  /\ pc' = "derive"
  /\ UNCHANGED <<infer_format, chunksize, folders, file_idx, row_pos, chunk,
                 aggregated_chunks, enrolment_df, demographic_df, biometric_df,
                 output_csv, error, stdout>>

\* master_table.py lines 103-121
DeriveMetrics ==
  /\ pc = "derive"
  /\ master_df' = Derive(master_df)
  /\ pc' = "save"
  /\ stdout' = Append(stdout, Line("Creating derived metrics", <<>>))
  /\ UNCHANGED <<infer_format, chunksize, folders, file_idx, row_pos, chunk,
                 aggregated_chunks, enrolment_df, demographic_df, biometric_df,
                 output_csv, error>>

\* the columns of master_df once the derived metrics are added
MasterColumns ==
  {"date", "state", "district", "age_0_5", "age_5_17", "age_18_greater",
   "total_enrolments", "demo_5_17", "demo_18_plus", "bio_5_17", "bio_18_plus",
   "update_burden", "child_ratio", "policy_alert"}

\* master_table.py lines 127-131: the summary printed before the table is saved
Summary(frame) ==
  LET dates == {frame[i].date : i \in 1..Len(frame)}
  IN <<Line("Master table summary", <<>>),
       Line("Rows:", <<Len(frame)>>),
       Line("Columns:", <<IF frame = <<>> THEN Cardinality(MasterColumns)
                                         ELSE Cardinality(DOMAIN frame[1])>>),
       Line("States:", <<Cardinality({frame[i].state : i \in 1..Len(frame)})>>),
       Line("Date range:",
            IF dates = {} THEN <<>>
            ELSE <<CHOOSE d \in dates : \A e \in dates : d <= e,
                   CHOOSE d \in dates : \A e \in dates : d >= e>>)>>

\* master_table.py lines 127-141: print the summary, master_df.to_csv(output_path,
\* index=False), print the closing lines
Save ==
  /\ pc = "save"
  /\ output_csv' = [written |-> TRUE, rows |-> master_df]
  /\ pc' = "done"
  /\ stdout' = stdout \o Summary(master_df) \o
                  <<Line("Master UIDAI table saved to", <<>>),
                    Line("Master table generation completed successfully", <<>>)>>
  /\ UNCHANGED <<infer_format, chunksize, folders, file_idx, row_pos, chunk,
                 aggregated_chunks, enrolment_df, demographic_df, biometric_df,
                 master_df, error>>

Next ==
  \/ ReadChunk
  \/ ChunkKeyError
  \/ ConcatValueError
  \/ FinishEnrolment
  \/ FinishDemographic
  \/ FinishBiometric
  \/ Merge
  \/ Fill
  \/ DeriveMetrics
  \/ Save

Spec == Init /\ [][Next]_vars

SpecAggregate == InitAggregate /\ [][Next]_vars

SpecText == InitText /\ [][Next]_vars

\* ------------------------------------------------------------------ the function as a whole
\* every chunk the loops of aggregate_folder read from a folder, in order
RECURSIVE AllChunks(_, _)
AllChunks(files, cs) ==
  IF files = <<>> THEN <<>> ELSE Chunks(Head(files).rows, cs) \o AllChunks(Tail(files), cs)

\* aggregate_folder(folder, group_cols, sum_cols, chunksize) on a folder it does not
\* raise on
aggregate_folder(folder, ds, cs, infer) ==
  LET chunks == AllChunks(folder.files, cs)
  IN NameColumns(FinalCombine([i \in 1..Len(chunks) |-> ChunkAggregate(chunks[i], infer)]),
                 SumCols(ds))

\* ------------------------------------------------------------------ claims
Rank(p) ==
  CASE p = "enrolment" -> 1
    [] p = "demographic" -> 2
    [] p = "biometric" -> 3
    [] p = "merge" -> 4
    [] p = "fillna" -> 5
    [] p = "derive" -> 6
    [] p = "save" -> 7
    [] p = "done" -> 8
    [] OTHER -> 0

\* the call of aggregate_folder for ds has returned
Finished(ds) == Rank(pc) > Rank(ds)

DfOf(ds) ==
  CASE ds = "enrolment" -> enrolment_df
    [] ds = "demographic" -> demographic_df
    [] ds = "biometric" -> biometric_df

Rows(frame) == {frame[i] : i \in 1..Len(frame)}

\* C1: for a fixed set of shard files the aggregate of a dataset is the same table
\* (same keys, same sums) for every chunk size, the largest reading each file in one
\* chunk.
ChunkInvariance ==
  \A ds \in Datasets : Returns(ds) =>
    \A cs \in ChunkSizes :
      Rows(final_df) = Rows(aggregate_folder(folders[ds], ds, cs, infer_format))

\* a raw row with a date that parses and a state that resolves
Retained(r) == ~ParseDate(r.date).nan /\ normalize_text(r.state) \in StateKeys

CleanKey(r) ==
  <<ParseDate(r.date).v, MapState(normalize_text(r.state)).v,
    StrTitle(normalize_text(r.district))>>

RECURSIVE DirectSum(_, _, _)
DirectSum(rows, k, j) ==
  IF rows = <<>> THEN 0
  ELSE (IF Retained(Head(rows)) /\ CleanKey(Head(rows)) = k
          THEN fillna0(to_numeric(Head(rows).vals[j])).v ELSE 0)
       + DirectSum(Tail(rows), k, j)

\* one row per key of a retained record, each metric the sum of the cleaned values
\* of the retained records with that key
DirectAggregate(rows, names) ==
  { [date |-> k[1], state |-> k[2], district |-> k[3]]
      @@ [c \in Range(names) |->
            Cell(DirectSum(rows, k, CHOOSE j \in 1..Len(names) : names[j] = c))] :
    k \in {CleanKey(r) : r \in {x \in Range(rows) : Retained(x)}} }

\* C2: the aggregate has a row for a key exactly when a record with a parseable date
\* and a resolvable state has that key, and each metric of the row is the sum of the
\* cleaned values of those records.
ExactSums ==
  \A ds \in Datasets : Returns(ds) =>
    Rows(final_df) = DirectAggregate(AllRows(folders[ds].files), SumCols(ds))

\* C3: no two rows of the table aggregate_folder returns share a group key, also
\* when the key occurs in several chunks or several shard files.
KeyUniqueness ==
  /\ \A ds \in Datasets : Finished(ds) =>
       \A i, j \in 1..Len(DfOf(ds)) : i # j => Key(DfOf(ds)[i]) # Key(DfOf(ds)[j])
  /\ \A ds \in Datasets : Returns(ds) =>
       \A i, j \in 1..Len(final_df) : i # j => Key(final_df[i]) # Key(final_df[j])

\* a key read from two shard files, its partial sums 1 and 10 added up
KeyInTwoShards ==
  /\ Finished("enrolment")
  /\ Len(folders["enrolment"].files) = 2
  /\ \A i \in 1..2 : \E r \in Range(folders["enrolment"].files[i].rows) :
       Retained(r) /\ CleanKey(r) = <<20250301, Goa, <<"P","u","n","e">> >>
  /\ \E r \in Rows(enrolment_df) : r.age_0_5 = Cell(11)

Perms(n) == {p \in [1..n -> 1..n] : \A i, j \in 1..n : i # j => p[i] # p[j]}

\* C4: whatever the order the shard files of a folder are processed in, the
\* aggregate has the same rows.
OrderInvariance ==
  \A ds \in Datasets : Returns(ds) =>
    LET files == folders[ds].files
    IN \A p \in Perms(Len(files)) :
         Rows(final_df) =
           Rows(aggregate_folder(Folder(TRUE, [i \in 1..Len(files) |-> files[p[i]]]),
                                 ds, chunksize, infer_format))

\* two different shards that both contribute to one key
TwoShardsAggregated ==
  /\ Finished("enrolment")
  /\ Len(folders["enrolment"].files) = 2
  /\ folders["enrolment"].files[1] # folders["enrolment"].files[2]
  /\ Len(enrolment_df) = 1
  /\ \A i \in 1..2 : \E r \in Range(folders["enrolment"].files[i].rows) : Retained(r)

Unresolvable(r) == normalize_text(r.state) \notin StateKeys

\* the rows, the metric values of every row with an unresolvable state replaced
OtherValues(rows) ==
  [i \in 1..Len(rows) |->
     IF Unresolvable(rows[i])
       THEN [rows[i] EXCEPT !.vals = [j \in 1..Len(rows[i].vals) |-> "0"]]
       ELSE rows[i]]

OtherValuesFolder(folder) ==
  Folder(folder.exists,
         [i \in 1..Len(folder.files) |->
            File(folder.files[i].columns, OtherValues(folder.files[i].rows))])

\* C5: every state of a partial or final aggregate row is an official name of the
\* mapping, and the metric values of a record with an unresolvable state reach no
\* row: the partial aggregate just appended and the table returned are what they
\* would be with other values in that record.
UnresolvedStateExcluded ==
  /\ \A i \in 1..Len(aggregated_chunks) :
       \A r \in Rows(aggregated_chunks[i]) : r.state \in CanonicalNames
  /\ Aggregating /\ aggregated_chunks # <<>> =>
       LET n == Len(aggregated_chunks)
       IN aggregated_chunks[n] =
            ChunkAggregate(OtherValues(AllChunks(folders[pc].files, chunksize)[n]),
                           infer_format)
  /\ \A ds \in Datasets : Returns(ds) =>
       final_df = aggregate_folder(OtherValuesFolder(folders[ds]), ds, chunksize, infer_format)
  /\ \A ds \in Datasets : \A r \in Rows(DfOf(ds)) : r.state \in CanonicalNames
  /\ \A r \in Rows(master_df) \cup Rows(output_csv.rows) : r.state \in CanonicalNames

\* a shard with a "Xanadu" row and a row that is kept
XanaduDropped ==
  /\ Finished("enrolment")
  /\ \E r \in Range(AllRows(folders["enrolment"].files)) : r.state = Xanadu
  /\ Len(enrolment_df) = 1
  /\ Len(AllRows(folders["enrolment"].files)) > 1

\* a structural failure of a dataset folder: no folder, no shard file, or a shard
\* without a required column
StructuralFailure(ds) ==
  \/ ~folders[ds].exists
  \/ folders[ds].files = <<>>
  \/ \E f \in Range(folders[ds].files) : ~(RequiredColumns(ds) \subseteq f.columns)

\* C6: a run with a structural failure in any of the three folders ends aborted with
\* an error and never writes the master table; the table is written only by a run
\* that finished the three aggregations, the merge and the derived fields.
AbortBeforeOutput ==
  /\ (\E ds \in Datasets : StructuralFailure(ds)) =>
       /\ ~output_csv.written
       /\ Rank(pc) < Rank("merge")
  /\ \A ds \in Datasets : StructuralFailure(ds) => ~Returns(ds) /\ ~Finished(ds)
  /\ output_csv.written =>
       /\ pc = "done" /\ error = "none"
       /\ output_csv.rows = master_df
       /\ master_df =
            Derive(FillNa(MergeLeft(MergeLeft(enrolment_df, demographic_df,
                                              {"demo_5_17", "demo_18_plus"}),
                                    biometric_df, {"bio_5_17", "bio_18_plus"})))
       /\ \A ds \in Datasets :
            DfOf(ds) = Kept(ds, aggregate_folder(folders[ds], ds, chunksize, infer_format))
  /\ pc = "aborted" => ~output_csv.written /\ error # "none"

\* the enrolment aggregate was built, then the biometric folder was not there
AbortedAfterEnrolment ==
  /\ pc = "aborted"
  /\ error = "ValueError"
  /\ ~folders["biometric"].exists
  /\ enrolment_df # <<>>
  /\ ~output_csv.written

Merged == Rank(pc) > Rank("merge")

KeysOf(frame) == {Key(r) : r \in Rows(frame)}

\* C7: the master table has exactly one row for each key of the enrolment aggregate
\* and no other row; a key only the demographic or the biometric aggregate has is
\* not in it.
EnrolmentAuthoritative ==
  /\ Merged =>
       /\ KeysOf(master_df) = KeysOf(enrolment_df)
       /\ \A i, j \in 1..Len(master_df) : i # j => Key(master_df[i]) # Key(master_df[j])
       /\ \A k \in (KeysOf(demographic_df) \cup KeysOf(biometric_df)) \ KeysOf(enrolment_df) :
            k \notin KeysOf(master_df)
  /\ output_csv.written =>
       /\ KeysOf(output_csv.rows) = KeysOf(enrolment_df)
       /\ Len(output_csv.rows) = Cardinality(KeysOf(enrolment_df))

\* a written master table of two rows, and a demographic key enrolment does not have
UpdateKeyLost ==
  /\ output_csv.written
  /\ Len(output_csv.rows) = 2
  /\ KeysOf(demographic_df) \ KeysOf(enrolment_df) # {}
  /\ KeysOf(demographic_df) \cap KeysOf(enrolment_df) # {}

Filled == Rank(pc) > Rank("fillna")

NotNull(r, c) ==
  CASE c \in KeyColumns \cup {"policy_alert"} -> TRUE
    [] c = "child_ratio" -> r[c].kind # "nan"
    [] OTHER -> ~r[c].nan

Derived == Rank(pc) > Rank("derive")

\* C9: in every master row update_burden is the sum of the four update columns,
\* child_ratio is age_0_5 / total_enrolments, and policy_alert holds exactly when
\* update_burden > 0.5 * total_enrolments; ages 10/20/70 give total 100 and ratio
\* 1/10, with no alert for updates of 30 or 50 and an alert for 60.
DerivedFields ==
  Derived =>
    \A r \in Rows(master_df) :
      /\ r.update_burden =
           Cell(r.demo_5_17.v + r.demo_18_plus.v + r.bio_5_17.v + r.bio_18_plus.v)
      /\ r.child_ratio.kind = "finite"
      /\ r.child_ratio.num * r.total_enrolments.v = r.age_0_5.v * r.child_ratio.den
      /\ r.policy_alert = (2 * r.update_burden.v > r.total_enrolments.v)
      /\ (r.age_0_5 = Cell(10) /\ r.age_5_17 = Cell(20) /\ r.age_18_greater = Cell(70)) =>
           /\ r.total_enrolments = Cell(100)
           /\ 10 * r.child_ratio.num = r.child_ratio.den
           /\ r.update_burden.v \in {30, 50} => r.policy_alert = FALSE
           /\ r.update_burden.v = 60 => r.policy_alert = TRUE

\* ages 10/20/70 with updates of exactly half the enrolments: no alert
HalfIsNoAlert ==
  /\ pc = "done"
  /\ \E r \in Rows(master_df) :
       /\ r.total_enrolments = Cell(100)
       /\ r.update_burden = Cell(50)
       /\ r.policy_alert = FALSE

Max(a, b) == IF a >= b THEN a ELSE b

\* C10: total_enrolments of every master row is the sum of the three age columns
\* floored at 1, so it is at least 1 and the division has no zero divisor.
ZeroDivisionGuard ==
  Derived =>
    \A r \in Rows(master_df) :
      /\ r.total_enrolments = Cell(Max(1, r.age_0_5.v + r.age_5_17.v + r.age_18_greater.v))
      /\ r.total_enrolments.v >= 1
      /\ r.child_ratio.kind = "finite"

\* the state and district texts of a raw chunk: what normalize_text is applied to
TextsOf(rows) == {rows[i].state : i \in 1..Len(rows)} \cup
                 {rows[i].district : i \in 1..Len(rows)}

\* C11: normalize_text is idempotent: for every state and district text x of a chunk
\* the loop cleans, normalize_text(normalize_text(x)) = normalize_text(x).
NormalizationIdempotence ==
  [][ReadChunk =>
       \A x \in TextsOf(CurrentChunk) :
         normalize_text(normalize_text(x)) = normalize_text(x)]_vars

\* a chunk was cleaned whose district text grows under normalization (a decomposed
\* letter) and is not its own normal form
DecomposedTextCleaned ==
  /\ pc = "enrolment"
  /\ chunk # <<>>
  /\ \E r \in Range(AllRows(folders["enrolment"].files)) :
       /\ Len(normalize_text(r.district)) > Len(r.district)
       /\ chunk[1].district = StrTitle(normalize_text(r.district))

\* the rows of a raw chunk whose normalized state text is a key of the mapping
KeyRows(rows) ==
  SelectSeq(rows, LAMBDA r : \E e \in STATE_MASTER : e[1] = normalize_text(r.state))

\* C12: state resolution is an exact lookup after normalization: a row whose
\* normalized state is a key of STATE_MASTER is kept with that key's official name,
\* every other row is dropped.  (The state texts of the text scenarios include every
\* key of the mapping, and every date of these scenarios parses.)
CanonicalResolution ==
  [][ReadChunk =>
       LET hits == KeyRows(CurrentChunk)
       IN /\ Len(chunk') = Len(hits)
          /\ \A i \in 1..Len(hits) :
               <<normalize_text(hits[i].state), chunk'[i].state>> \in STATE_MASTER]_vars

\* a spelling that is no key itself (a capital letter) was resolved to the official
\* name of the key it normalizes to, its row kept
VariantResolved ==
  /\ pc = "enrolment"
  /\ Len(chunk) = 1
  /\ chunk[1].state \in CanonicalNames
  /\ chunk[1].district = StrTitle(Pune)
  /\ \E r \in Range(AllRows(folders["enrolment"].files)) :
       r.state \notin StateKeys /\ normalize_text(r.state) \in StateKeys

\* the positions of the rows of a raw chunk that the date and the state cleaning keep
KeptPositions(rows, infer) ==
  LET dates == to_datetime([i \in 1..Len(rows) |-> rows[i].date], infer)
  IN SelectSeq([i \in 1..Len(rows) |-> i],
               LAMBDA i : ~dates[i].nan /\ normalize_text(rows[i].state) \in StateKeys)

\* C13: after the numeric coercion of a chunk every value of every sum column of
\* every retained record is a non-negative number, and a raw value that is no
\* number has become exactly 0, its row kept.
CleanedNumericInvariant ==
  [][ReadChunk =>
       LET kept == KeptPositions(CurrentChunk, infer_format)
       IN /\ Len(chunk') = Len(kept)
          /\ \A n \in 1..Len(kept) : \A j \in 1..Len(SumCols(pc)) :
               /\ chunk'[n].v[j] >= 0
               /\ to_numeric(CurrentChunk[kept[n]].vals[j]).nan => chunk'[n].v[j] = 0]_vars

Unparseable(r) == ParseDate(r.date).nan

\* the rows, the metric values of every row with an unparseable date replaced
OtherDateValues(rows) ==
  [i \in 1..Len(rows) |->
     IF Unparseable(rows[i])
       THEN [rows[i] EXCEPT !.vals = [j \in 1..Len(rows[i].vals) |-> "0"]]
       ELSE rows[i]]

OtherDateValuesFolder(folder) ==
  Folder(folder.exists,
         [i \in 1..Len(folder.files) |->
            File(folder.files[i].columns, OtherDateValues(folder.files[i].rows))])

\* the lines aggregate_folder and the script print to report progress
ProgressTexts ==
  {"Aggregating UIDAI datasets...", "Processing Aadhaar Enrolment data",
   "Processing Demographic Update data", "Processing Biometric Update data",
   "Processing:"}

\* the printed lines that are no progress line: all a run can record a skipped row in
AuditLines == SelectSeq(stdout, LAMBDA l : l.text \notin ProgressTexts)

\* C14: a row whose date cannot be parsed reaches no partial and no final aggregate
\* (they are what they would be with other values in that row), it does not abort
\* the run (a run aborts only on a structural failure), and the run records it as
\* skipped: when aggregate_folder returns after dropping such a row, the output
\* holds a line that reports it.
DateDropAudit ==
  /\ Aggregating /\ aggregated_chunks # <<>> =>
       LET n == Len(aggregated_chunks)
       IN aggregated_chunks[n] =
            ChunkAggregate(OtherDateValues(AllChunks(folders[pc].files, chunksize)[n]),
                           infer_format)
  /\ pc = "aborted" => \E ds \in Datasets : StructuralFailure(ds)
  /\ \A ds \in Datasets : Returns(ds) =>
       /\ final_df = aggregate_folder(OtherDateValuesFolder(folders[ds]), ds,
                                     chunksize, infer_format)
       /\ (\E r \in Range(AllRows(folders[ds].files)) : Unparseable(r)) =>
            AuditLines # <<>>

\* normalize_text on a column: one output value per input value, in order
NormalizeSeries(col) == [i \in 1..Len(col) |-> normalize_text(col[i])]

\* a lower-case letter or a digit
IsLowerAlnum(c) == c \in LowerSet \cup DigitSet \cup {"E_ACUTE"}

\* only lower-case alphanumerics and single spaces, none at either end
Shaped(y) ==
  /\ \A i \in 1..Len(y) : y[i] = " " \/ IsLowerAlnum(y[i])
  /\ \A i \in 1..(Len(y) - 1) : ~(y[i] = " " /\ y[i + 1] = " ")
  /\ y # <<>> => y[1] # " " /\ y[Len(y)] # " "

\* C15: every output value of normalize_text holds only lower-case alphanumeric
\* characters and single spaces (every other character, the underscore too, became a
\* space), with no run of spaces and none at either end; and the output column has
\* one value per input value, in the same order.
NormalizerShape ==
  [][ReadChunk =>
       \A col \in {[i \in 1..Len(CurrentChunk) |-> CurrentChunk[i].state],
                   [i \in 1..Len(CurrentChunk) |-> CurrentChunk[i].district]} :
         /\ Len(NormalizeSeries(col)) = Len(col)
         /\ \A i \in 1..Len(col) :
              /\ NormalizeSeries(col)[i] = normalize_text(col[i])
              /\ Shaped(NormalizeSeries(col)[i])]_vars

\* 0 <= num/den <= 1 for a finite fraction
InUnitRange(q) ==
  /\ q.kind = "finite"
  /\ \/ q.den > 0 /\ 0 <= q.num /\ q.num <= q.den
     \/ q.den < 0 /\ q.den <= q.num /\ q.num <= 0

\* C16: in every row of the master table 0 <= child_ratio <= 1: age_0_5 and
\* total_enrolments are not negative and age_0_5 does not exceed total_enrolments.
ChildRatioRange ==
  /\ Derived =>
       \A r \in Rows(master_df) :
         /\ InUnitRange(r.child_ratio)
         /\ 0 <= r.age_0_5.v
         /\ r.age_0_5.v <= r.total_enrolments.v
  /\ output_csv.written => \A r \in Rows(output_csv.rows) : InUnitRange(r.child_ratio)

====
